---- MODULE Spec2Model ----
(***************************************************************************)
(* Voice mode of the home assistant: the main turn loop of run_voice       *)
(* (wake word, capture until silence, transcription, orchestration,        *)
(* persistence, speech), the timer daemon thread that announces expired    *)
(* timers, and the threading.Lock that serialises their speech output.     *)
(***************************************************************************)
EXTENDS Integers, Sequences, FiniteSets, TLC

VARIABLES
    mainPc,             \* position of the main thread in run_voice
    timerPc,            \* position of the daemon thread in start_timer_daemon
    audio_lock,         \* threading.Lock: TRUE when locked
    stop_event,         \* threading.Event: TRUE when set
    streamOpen,         \* AudioStream.stream is not None
    exitCause,          \* exception that ended run_voice ("none" while running)
    expired,            \* daemon local: timers of this tick not yet announced
    tickError,          \* daemon: the current tick ended in the except clause
    max_silent_frames,  \* record_until_silence local
    frames,             \* record_until_silence local: is_speech of each collected frame
    silent_frames,      \* record_until_silence local
    attempts,           \* record_until_silence: index of the for loop
    reads,              \* record_until_silence: calls of stream.read made
    recStop,            \* record_until_silence: "none", or "silence" after the break
    wPc,                \* position inside wait_for_wake_word
    audio_buffer,       \* wait_for_wake_word local: samples not yet sliced
    frame_count,        \* wait_for_wake_word local: chunks sliced so far
    srcPos,             \* samples delivered by stream.read in this call
    scored,             \* chunks passed to detector.detect, with their predictions
    resets,             \* calls of detector.reset
    wakeEvents,         \* returns of wait_for_wake_word
    pmPc,               \* position inside process_message
    messages,           \* process_message local: the message history
    tracked_tool_calls, \* process_message local
    tool_calls,         \* process_message local: calls requested in this round
    tcIdx,              \* position of the for loop over tool_calls
    response,           \* last message returned by chat.completions.create
    submitted,          \* the histories sent to chat.completions.create, in order
    invoked,            \* handler invocations made by execute_tool, in order
    result,             \* the ConversationResult returned
    pmError,            \* exception that left process_message
    text,               \* run_voice local: the transcribed text, a sequence of characters
    turnLog,            \* calls made by run_voice since the last wake event, in order
    queue,              \* AudioStream.queue: frames put by the callback, not yet read
    produced,           \* frames the capture callback has been called with
    consumed,           \* frames returned by stream.read, in order, with the reading phase
    timers,             \* the rows of table timers in data/timers.db
    clock,              \* datetime.now(), in ticks
    toolPc,             \* position of the main turn inside a timer capability
    call,               \* the timer capability called last, with its arguments
    fire_at,            \* create_timer / edit_timer local: the parsed time
    parsedAt,           \* `now` of _parse_time_input in the current call
    selected,           \* cancel_timer / edit_timer local: the row fetched
    before,             \* the rows of the table when the capability was called
    returned,           \* what the capability called last returned
    gePc,               \* position of the daemon inside get_expired_timers
    geNow,              \* get_expired_timers local: now
    geRows,             \* get_expired_timers local: rows
    picked,             \* history: the records (id, created_at) in the rows of the running poll
    handed,             \* history: the records returned by finished polls
    leftBy,             \* the operations that have removed a row from the table
    parseIn,            \* the clock-time input given to _parse_time_input
    parseNow,           \* _parse_time_input local: now
    parseOut,           \* what _parse_time_input returned or raised
    history,            \* the rows of the table history of data/history.db
    last_id,            \* the AUTOINCREMENT sequence of the table history
    saved,              \* history: the ids of the conversations saved, in order
    toolCalls           \* timer capabilities called so far

vars == <<mainPc, timerPc, audio_lock, stop_event, streamOpen, exitCause,
          expired, tickError, max_silent_frames, frames, silent_frames,
          attempts, reads, recStop,
          wPc, audio_buffer, frame_count, srcPos, scored, resets, wakeEvents,
          pmPc, messages, tracked_tool_calls, tool_calls, tcIdx, response,
          submitted, invoked, result, pmError, text, turnLog,
          queue, produced, consumed,
          timers, clock, toolPc, call, fire_at, parsedAt, selected, before,
          returned, gePc, geNow, geRows, picked, handed, leftBy, toolCalls,
          parseIn, parseNow, parseOut, history, last_id, saved>>

recVars == <<frames, silent_frames, attempts, reads, recStop>>
timerVars == <<timerPc, expired, tickError>>
wakeVars == <<wPc, audio_buffer, frame_count, srcPos, scored, resets, wakeEvents>>
\* state of the functions that are run on their own
orchVars == <<pmPc, messages, tracked_tool_calls, tool_calls, tcIdx, response,
              submitted, invoked, result, pmError>>
queueVars == <<queue, produced, consumed>>
toolVars == <<toolPc, call, fire_at, parsedAt, selected, before, returned, toolCalls>>
expiredVars == <<gePc, geNow, geRows, picked, handed>>
storeVars == <<timers, clock, toolVars, expiredVars, leftBy>>
parseVars == <<parseIn, parseNow, parseOut>>
histVars == <<history, last_id, saved>>
laterVars == <<queueVars, storeVars, parseVars, histVars>>
otherVars == <<wakeVars, orchVars, laterVars>>
turnVars == <<text, turnLog>>
voiceVars == <<mainPc, timerPc, audio_lock, stop_event, streamOpen, exitCause,
               expired, tickError, max_silent_frames, recVars, turnVars>>

----------------------------------------------------------------------------
(* Bounds *)

\* max_frames = int(30.0 * 1000 / 30) = 1000 in the source, scaled down
MaxFrames == 4
\* largest value of int(SILENCE_THRESHOLD * 1000 / 30) explored
MaxSilent == 3
\* most timers one poll of the store returns
MaxExpired == 2
\* chunk_size = 1280 samples in the source, scaled down
WakeChunk == 3
\* largest frame, in samples, one stream.read delivers to wait_for_wake_word
MaxFrameLen == 4
\* whole chunks delivered to one call of wait_for_wake_word
MaxWakeChunks == 2
\* rounds in which the chat-completion service requests capabilities
MaxRounds == 2
\* most capability requests in one response
MaxCalls == 2
\* longest transcription, in characters
MaxTextLen == 2
\* frames the capture device delivers in one run
MaxCaptured == 4
\* ticks of the clock in one second (microseconds in the source)
TicksPerSecond == 2
\* ticks explored beyond the first second
ExtraTicks == 1
\* most rows of the table timers
MaxTimers == 2
\* timer capabilities the main turn calls in one run
MaxToolCalls == 2
\* days after the first on which a clock-time input is parsed
MaxDays == 1
\* conversations saved in one run
MaxSaves == 110

(* Program constants *)

FRAME_DURATION_MS == 30
SAMPLE_RATE == 16000
\* FRAME_SIZE = int(SAMPLE_RATE * FRAME_DURATION_MS / 1000)
FRAME_SIZE == (SAMPLE_RATE * FRAME_DURATION_MS) \div 1000
\* one int16 mono frame: audio.flatten().tobytes()
FrameBytes == FRAME_SIZE * 2
MinAudioBytes == 1000

max_frames == MaxFrames
\* last reading of the clock explored: one second and ExtraTicks ticks
MaxClock == TicksPerSecond + ExtraTicks

\* DEFAULT_THRESHOLD = 0.5, in hundredths
DEFAULT_THRESHOLD == 50
\* history_store.py: MAX_HISTORY = 20
MAX_HISTORY == 20
\* scores a keyword model returns, in hundredths
Scores == {0, 50, 100}
\* keys of the prediction of the loaded model
Keywords == {"hey_jarvis", "alexa"}
chunk_size == WakeChunk
\* samples delivered to one call: MaxWakeChunks chunks and a remainder
MaxWakeSamples == MaxWakeChunks * chunk_size + 1

Labels == {"", "eggs"}

RECURSIVE SeqsUpTo(_, _)
SeqsUpTo(S, n) ==
    IF n = 0 THEN {<<>>}
    ELSE LET shorter == SeqsUpTo(S, n - 1)
         IN shorter \cup {Append(s, x) : s \in {t \in shorter : Len(t) = n - 1}, x \in S}

----------------------------------------------------------------------------
(* threading.Lock *)

\* variant: acquire that does not wait for the holder
CanAcquire_NoWait(lock) == TRUE

\* Lock.acquire() blocks while the lock is held
CanAcquire(lock) == ~lock

\* variant: the lock is not released after playback
ReleaseOnReturn_Leak(lock) == lock

\* `with audio_lock:` leaving its body normally
ReleaseOnReturn(lock) == FALSE

\* variant: acquire()/release() without try/finally
ReleaseOnRaise_Leak(lock) == lock

\* `with audio_lock:` leaving its body by an exception
ReleaseOnRaise(lock) == FALSE

\* the activity is inside speak(), the body of `with audio_lock:`
InSpeak(pc) == pc \in {"synth", "play"}

----------------------------------------------------------------------------
(* record_until_silence *)

\* variant: range(max_frames + 1)
LoopContinues_OffByOne(i, mf) == i <= mf

\* for _ in range(max_frames)
LoopContinues(i, mf) == i < mf

\* variant: a while loop that counts collected frames only
IndexAfterTimeout_Stay(i) == i

\* the loop index after an iteration whose read timed out (`continue`)
IndexAfterTimeout(i) == i + 1

\* variant: the counter is not reset by a speech frame
CountSilence_NoReset(silent, is_speech) == IF is_speech THEN silent ELSE silent + 1

\* if is_speech: silent_frames = 0 else: silent_frames += 1
CountSilence(silent, is_speech) == IF is_speech THEN 0 ELSE silent + 1

\* variant: break on the first non-speech frame
StopOnSilence_AnySilent(silent, n, msf) == silent >= 1

\* if silent_frames >= max_silent_frames and len(frames) > max_silent_frames: break
StopOnSilence(silent, n, msf) == silent >= msf /\ n > msf

\* len(b"".join(frames))
AudioLen(fs) == FrameBytes * Len(fs)

----------------------------------------------------------------------------

(* run_voice: the calls of one turn *)

\* characters of a transcription: a blank and a letter
Chars == {" ", "a"}
Whitespace == {" "}

\* str.strip()
RECURSIVE LStrip(_)
LStrip(str) == IF str # <<>> /\ Head(str) \in Whitespace THEN LStrip(Tail(str)) ELSE str
RECURSIVE RStrip(_)
RStrip(str) ==
    IF str # <<>> /\ str[Len(str)] \in Whitespace
    THEN RStrip(SubSeq(str, 1, Len(str) - 1)) ELSE str

\* variant: the text is tested without strip()
Strip_Missing(str) == str

Strip(str) == RStrip(LStrip(str))

\* variant: only an empty capture is discarded
TooShort_EmptyOnly(n) == n = 0

\* if len(audio_bytes) < 1000
TooShort(n) == n < MinAudioBytes

\* the calls of a turn that can raise, as recorded in turnLog
Calls == {"transcribe", "process_message", "save_conversation", "synthesis", "playback"}
Called(op, ok) == [op |-> op, ok |-> ok]

----------------------------------------------------------------------------
(* assistant.py and tools/__init__.py: data of process_message *)

\* Python's None
None == "<None>"
\* message.content of a response
Contents == {None, "", "It is sunny."}
UserMessages == {"what is the weather"}
\* keys of _TOOL_FUNCTIONS
Registry == {"get_weather", "get_current_time"}
\* names the service may ask for
ToolNames == {"get_weather", "bogus"}
\* tc.function.arguments as sent by the service
ArgStrings == {"{}", "{\"location\": \"Oslo\"}", "{"}

\* json.loads: the parsed dict as a set of key/value pairs; ok is FALSE when
\* it raises JSONDecodeError
JsonLoads(str) ==
    CASE str = "{}" -> [ok |-> TRUE, value |-> {}]
      [] str = "{\"location\": \"Oslo\"}" -> [ok |-> TRUE, value |-> {<<"location", "Oslo">>}]
      [] OTHER -> [ok |-> FALSE, value |-> {}]

NoResponse == [content |-> None, tool_calls |-> <<>>, valid |-> FALSE]
NoResult == [user_input |-> None, final_response |-> None, tool_calls |-> <<>>,
             valid |-> FALSE]

Message(role, content, calls, id) ==
    [role |-> role, content |-> content, tool_calls |-> calls, tool_call_id |-> id]

\* texts returned by execute_tool
UnknownToolText(name) == <<"Error: Unknown tool '", name, "'">>
ErrorText(name) == <<"Error executing ", name, ": ", "exception">>
HandlerText(name, args) == <<"result of ", name, args>>
IsErrorText(str) == str[1] \in {"Error: Unknown tool '", "Error executing "}

\* variant: the handler is called without try/except
ExecuteTool_NoCatch(name, args, outcome) ==
    IF name \notin Registry
    THEN [raised |-> FALSE, text |-> UnknownToolText(name)]
    ELSE IF outcome = "raise"
         THEN [raised |-> TRUE, text |-> ErrorText(name)]
         ELSE [raised |-> FALSE, text |-> HandlerText(name, args)]

\* execute_tool: unknown name, or the handler called inside try/except Exception;
\* outcome says whether the handler (or the binding of its arguments) raises
ExecuteTool(name, args, outcome) ==
    IF name \notin Registry
    THEN [raised |-> FALSE, text |-> UnknownToolText(name)]
    ELSE IF outcome = "raise"
         THEN [raised |-> FALSE, text |-> ErrorText(name)]
         ELSE [raised |-> FALSE, text |-> HandlerText(name, args)]

\* variant: a cap on the number of rounds
RoundAllowed_Capped(rounds) == rounds < 1

\* while True:
RoundAllowed(rounds) == TRUE

\* variant: the answer is replaced when the first response is final
FinalResponse_Blank(content) == ""

\* final_response=message.content or ""
FinalResponse(content) == IF content \in {None, ""} THEN "" ELSE content

\* variant: the calls of a round are run last to first
CallAt_Reversed(calls, idx) == calls[Len(calls) + 1 - idx]

\* for tool_call in tool_calls:
CallAt(calls, idx) == calls[idx]

\* variant: error results are not recorded
Track_SkipErrors(tracked, name, args, res) ==
    IF IsErrorText(res) THEN tracked
    ELSE Append(tracked, [name |-> name, arguments |-> args, result |-> res])

\* tracked_tool_calls.append({"name": name, "arguments": args, "result": result})
Track(tracked, name, args, res) ==
    Append(tracked, [name |-> name, arguments |-> args, result |-> res])

\* the ids of the calls requested by the assistant messages of a history, in order
RECURSIVE RequestedCalls(_)
RequestedCalls(msgs) ==
    IF msgs = <<>> THEN <<>>
    ELSE (IF Head(msgs).role = "assistant" THEN Head(msgs).tool_calls ELSE <<>>)
         \o RequestedCalls(Tail(msgs))

\* variant: the tool message carries no correlation id
ToolMessage_NoId(tool_call, res) == Message("tool", res, <<>>, 0)

\* {"role": "tool", "tool_call_id": tool_call.id, "content": result}
ToolMessage(tool_call, res) == Message("tool", res, <<>>, tool_call.id)

IsToolMessage(m) == m.role = "tool"
ToolMessages(msgs) == SelectSeq(msgs, IsToolMessage)

----------------------------------------------------------------------------
(* tools/timer.py: time inputs, the rows of the table, the texts returned *)

DigitChars == <<"0", "1", "2", "3", "4", "5", "6", "7", "8", "9">>
IsDigit(c) == \E i \in 1..10 : DigitChars[i] = c
DigitVal(c) == (CHOOSE i \in 1..10 : DigitChars[i] = c) - 1

\* int(match.group(n))
RECURSIVE ToInt(_)
ToInt(ds) ==
    IF ds = <<>> THEN 0
    ELSE ToInt(SubSeq(ds, 1, Len(ds) - 1)) * 10 + DigitVal(ds[Len(ds)])

\* length of the run of digits a string starts with: \d+
RECURSIVE DigitRun(_)
DigitRun(str) ==
    IF str # <<>> /\ IsDigit(Head(str)) THEN 1 + DigitRun(Tail(str)) ELSE 0

\* str.lower(), for the letters of the inputs explored
LowerChar(c) ==
    CASE c = "H" -> "h" [] c = "M" -> "m" [] c = "S" -> "s"
      [] c = "A" -> "a" [] c = "P" -> "p" [] OTHER -> c
Lower(str) == [i \in 1..Len(str) |-> LowerChar(str[i])]

\* one optional group (?:(\d+)u)? of the duration pattern, tried at the start
\* of str: <<n>> and the rest when it matches, <<>> (None) and str otherwise
Group(str, u) ==
    LET k == DigitRun(str)
    IN IF k > 0 /\ Len(str) > k /\ str[k + 1] = u
       THEN [value |-> <<ToInt(SubSeq(str, 1, k))>>, rest |-> SubSeq(str, k + 2, Len(str))]
       ELSE [value |-> <<>>, rest |-> str]

\* re.match(r'^(?:(\d+)h)?(?:(\d+)m)?(?:(\d+)s)?$', time_str)
MatchDuration(str) ==
    LET h == Group(str, "h")
        m == Group(h.rest, "m")
        s == Group(m.rest, "s")
    IN [matched |-> s.rest = <<>>, groups |-> <<h.value, m.value, s.value>>]

\* any(match.groups()): a group that took part in the match is a non-empty string
AnyGroup(groups) == \E i \in 1..Len(groups) : groups[i] # <<>>

\* int(match.group(n) or 0)
GroupOr0(g) == IF g = <<>> THEN 0 ELSE g[1]

\* re.match(r'^(\d{1,2}):(\d{2})\s*(am|pm)?$', time_str)
MatchTime(str) ==
    LET k == DigitRun(str)
        mm == SubSeq(str, k + 2, Len(str))
        tail == LStrip(SubSeq(mm, 3, Len(mm)))
        ok == /\ k \in {1, 2}
              /\ Len(str) > k /\ str[k + 1] = ":"
              /\ Len(mm) >= 2 /\ IsDigit(mm[1]) /\ IsDigit(mm[2])
              /\ tail \in {<<>>, <<"a", "m">>, <<"p", "m">>}
    IN IF ok
       THEN [matched |-> TRUE, hour |-> ToInt(SubSeq(str, 1, k)),
             minute |-> ToInt(SubSeq(mm, 1, 2)), period |-> tail]
       ELSE [matched |-> FALSE, hour |-> 0, minute |-> 0, period |-> <<>>]

\* timedelta(hours=h, minutes=m, seconds=s), in ticks
Timedelta(h, m, s) == (h * 3600 + m * 60 + s) * TicksPerSecond

\* timedelta(days=1), in ticks
OneDay == Timedelta(24, 0, 0)

\* variant: 12 is treated like any other hour
Hour24_NoTwelve(hour, period) == IF period = <<"p", "m">> THEN hour + 12 ELSE hour

\* if period == 'pm' and hour != 12: hour += 12; elif period == 'am' and hour == 12: hour = 0
Hour24(hour, period) ==
    IF period = <<"p", "m">> /\ hour # 12 THEN hour + 12
    ELSE IF period = <<"a", "m">> /\ hour = 12 THEN 0
    ELSE hour

\* now.replace(hour=hour, minute=minute, second=0, microsecond=0)
Replace(t, hour, minute) == (t \div OneDay) * OneDay + Timedelta(hour, minute, 0)

Parsed(t) == [raised |-> "none", value |-> t, message |-> [kind |-> "none", arg |-> <<>>]]
Raises(exc, kind, arg) == [raised |-> exc, value |-> 0, message |-> [kind |-> kind, arg |-> arg]]

\* _parse_time_input(time_str), with `now` the reading of the clock
ParseTimeInput(time_str, t) ==
    LET str == Lower(Strip(time_str))
        d == MatchDuration(str)
        c == MatchTime(str)
        hour == Hour24(c.hour, c.period)
        target == Replace(t, hour, c.minute)
    IN IF d.matched /\ AnyGroup(d.groups)
       THEN Parsed(t + Timedelta(GroupOr0(d.groups[1]), GroupOr0(d.groups[2]),
                                 GroupOr0(d.groups[3])))
       ELSE IF c.matched
       THEN IF hour > 23 THEN Raises("ValueError", "hour must be in 0..23", <<>>)
            ELSE IF c.minute > 59 THEN Raises("ValueError", "minute must be in 0..59", <<>>)
            ELSE Parsed(IF target <= t THEN target + OneDay ELSE target)
       ELSE Raises("ValueError", "Cannot parse time", str)

\* clock-time inputs, with the hour and minute of the day they ask for
ClockTime(str, hour, minute) == [str |-> str, hour |-> hour, minute |-> minute]
NoClockTime == ClockTime(<<>>, 0, 0)
ClockTimes ==
    { ClockTime(<<"7", ":", "0", "0", "a", "m">>, 7, 0),
      ClockTime(<<"1", "1", ":", "5", "9", "p", "m">>, 23, 59),
      ClockTime(<<"1", "4", ":", "3", "0">>, 14, 30),
      ClockTime(<<"1", "2", ":", "0", "0", "a", "m">>, 0, 0),
      ClockTime(<<"1", "2", ":", "3", "0", "p", "m">>, 12, 30),
      ClockTime(<<"1", "2", ":", "0", "0", " ", "P", "M">>, 12, 0),
      ClockTime(<<"0", ":", "0", "0">>, 0, 0),
      ClockTime(<<" ", "7", ":", "0", "5", " ">>, 7, 5),
      ClockTime(<<"2", "3", ":", "5", "9">>, 23, 59),
      ClockTime(<<"1", ":", "0", "0", "P", "M">>, 13, 0) }

\* readings of datetime.now(): midnight, the last tick of a day, and the
\* ticks at and next to every time of day asked for
TimesOfDay ==
    {0, OneDay - 1} \cup
    ({Timedelta(c.hour, c.minute, 0) + e : c \in ClockTimes, e \in {-1, 0, 1}}
        \cap (0..(OneDay - 1)))
NowSamples == {d * OneDay + x : d \in 0..MaxDays, x \in TimesOfDay}

\* _parse_time_input has not been called
NotParsed == [raised |-> "not called", value |-> 0, message |-> [kind |-> "none", arg |-> <<>>]]

\* variant: except Exception that is never entered
Catches_Nothing(exc) == FALSE

\* except ValueError as e: return str(e)
Catches(exc) == exc = "ValueError"

\* variant: the remaining seconds are rounded up
TotalSeconds_RoundUp(delta) == (delta + TicksPerSecond - 1) \div TicksPerSecond

\* int(delta.total_seconds())
TotalSeconds(delta) == delta \div TicksPerSecond

Part(n, u) == [n |-> n, unit |-> u]

\* the three branches of _format_remaining on total_seconds
FormatSeconds(total_seconds) ==
    IF total_seconds < 60 THEN <<Part(total_seconds, "s")>>
    ELSE IF total_seconds < 3600
    THEN LET minutes == total_seconds \div 60
             seconds == total_seconds % 60
         IN IF seconds # 0 THEN <<Part(minutes, "m"), Part(seconds, "s")>>
            ELSE <<Part(minutes, "m")>>
    ELSE LET hours == total_seconds \div 3600
             minutes == (total_seconds % 3600) \div 60
         IN IF minutes # 0 THEN <<Part(hours, "h"), Part(minutes, "m")>>
            ELSE <<Part(hours, "h")>>

\* _format_remaining(fire_at), with `now` the reading of the clock
FormatRemaining(fa, t) ==
    IF fa <= t THEN <<Part(0, "now")>> ELSE FormatSeconds(TotalSeconds(fa - t))

\* fire_at.strftime("%I:%M %p").lstrip("0")
TimeStr(fa) ==
    LET sod == (fa \div TicksPerSecond) % 86400
        hour == sod \div 3600
    IN [hour |-> IF hour % 12 = 0 THEN 12 ELSE hour % 12,
        minute |-> (sod % 3600) \div 60,
        period |-> IF hour < 12 THEN "AM" ELSE "PM"]

\* a label column: <<>> is NULL / None, <<str>> is the string str
NoLabel == <<>>
\* `if label:` / `if row["label"]:` - None and '' are both false
LabelGiven(label) == label # <<>> /\ label[1] # <<>>

Row(id, label, fa, created) ==
    [id |-> id, label |-> label, fire_at |-> fa, created_at |-> created]
NoRow == Row(<<>>, NoLabel, 0, 0)

\* SQLite LIKE: % matches any run of characters, _ any single character,
\* letters are compared without regard to case
RECURSIVE Like(_, _)
Like(str, pat) ==
    IF pat = <<>> THEN str = <<>>
    ELSE IF Head(pat) = "%"
    THEN \E k \in 0..Len(str) : Like(SubSeq(str, k + 1, Len(str)), Tail(pat))
    ELSE /\ str # <<>>
         /\ Head(pat) = "_" \/ LowerChar(Head(pat)) = LowerChar(Head(str))
         /\ Like(Tail(str), Tail(pat))

\* WHERE label = ? OR id = ? OR id LIKE ?  with (identifier, identifier, f"{identifier}%")
Matches(r, identifier) ==
    \/ r.label = <<identifier>>
    \/ r.id = identifier
    \/ Like(r.id, identifier \o <<"%">>)

\* label_str of cancel_timer and edit_timer: the quoted label, or else the id
NameOf(r) ==
    IF LabelGiven(r.label) THEN [quoted |-> TRUE, str |-> r.label[1]]
    ELSE [quoted |-> FALSE, str |-> r.id]

\* label_str of create_timer: the quoted label, or else nothing
LabelStr(label) ==
    IF LabelGiven(label) THEN [quoted |-> TRUE, str |-> label[1]]
    ELSE [quoted |-> FALSE, str |-> <<>>]

NoName == [quoted |-> FALSE, str |-> <<>>]
NoAt == [hour |-> 0, minute |-> 0, period |-> ""]

\* the value a capability returns: the kind of sentence and what is filled in
Text(kind, name, remaining, at, arg, lines) ==
    [kind |-> kind, name |-> name, remaining |-> remaining, at |-> at,
     arg |-> arg, lines |-> lines]
NoReturn == Text("none", NoName, <<>>, NoAt, <<>>, <<>>)

\* return str(e)
ErrorStr(message) == Text(message.kind, NoName, <<>>, NoAt, message.arg, <<>>)
\* the exception leaves the capability
Propagated(exc) == Text("raised", NoName, <<>>, NoAt, <<>>, <<>>)
\* f"No timer found matching '{identifier}'"
NotFound(identifier) == Text("No timer found matching", NoName, <<>>, NoAt, identifier, <<>>)

\* one line of list_timers
Line(r, t) ==
    [label |-> IF LabelGiven(r.label) THEN r.label ELSE NoLabel,
     remaining |-> FormatRemaining(r.fire_at, t), at |-> TimeStr(r.fire_at), id |-> r.id]

\* SELECT ... ORDER BY fire_at: the orders in which the rows can be returned
OrderedByFireAt(S) ==
    {s \in [1..Cardinality(S) -> S] :
        /\ \A i, j \in 1..Cardinality(S) : i < j => s[i] # s[j] /\ s[i].fire_at <= s[j].fire_at}

NoCall == [op |-> "none", time_input |-> <<>>, label |-> NoLabel, identifier |-> <<>>]
CallOf(op, time_input, label, identifier) ==
    [op |-> op, time_input |-> time_input, label |-> label, identifier |-> identifier]

(* the arguments explored *)

\* time strings given to create_timer: two durations, a string that matches
\* neither pattern, and a clock time with an hour out of range
TimeInputs == {<<"1", "s">>, <<" ", "1", "M">>, <<"x">>, <<"2", "5", ":", "0", "0">>}
\* time strings given to edit_timer
NewTimes == {<<" ", "1", "M">>, <<"x">>}
Eggs == <<"e", "g">>
\* label arguments of create_timer
TimerLabels == {NoLabel, <<Eggs>>}
\* values of uuid.uuid4().hex[:8], shortened to two characters
Ids == {<<"a", "b">>, <<"b", "a">>}
\* identifier arguments of cancel_timer and edit_timer: a label, an id, the
\* prefix of an id, a string no timer carries, and a wildcard
Identifiers == {Eggs, <<"a", "b">>, <<"a">>, <<"z">>, <<"%">>}

----------------------------------------------------------------------------

Init ==
    /\ mainPc = "start"
    /\ timerPc = "check"
    /\ audio_lock = FALSE
    /\ stop_event = FALSE
    /\ streamOpen = FALSE
    /\ exitCause = "none"
    /\ expired = <<>>
    /\ tickError = FALSE
    /\ max_silent_frames \in 0..MaxSilent
    /\ frames = <<>>
    /\ silent_frames = 0
    /\ attempts = 0
    /\ reads = 0
    /\ recStop = "none"
    /\ wPc = "idle"
    /\ audio_buffer = <<>>
    /\ frame_count = 0
    /\ srcPos = 0
    /\ scored = <<>>
    /\ resets = 0
    /\ wakeEvents = 0
    /\ pmPc = "idle"
    /\ messages = <<>>
    /\ tracked_tool_calls = <<>>
    /\ tool_calls = <<>>
    /\ tcIdx = 0
    /\ response = NoResponse
    /\ submitted = <<>>
    /\ invoked = <<>>
    /\ result = NoResult
    /\ pmError = "none"
    /\ text = <<>>
    /\ turnLog = <<>>
    /\ queue = <<>>
    /\ produced = 0
    /\ consumed = <<>>
    /\ timers = {}
    /\ clock = 0
    /\ toolPc = "idle"
    /\ call = NoCall
    /\ fire_at = 0
    /\ parsedAt = 0
    /\ selected = NoRow
    /\ before = {}
    /\ returned = NoReturn
    /\ gePc = "idle"
    /\ geNow = 0
    /\ geRows = {}
    /\ picked = {}
    /\ handed = {}
    /\ leftBy = {}
    /\ toolCalls = 0
    /\ parseIn = NoClockTime
    /\ parseNow = 0
    /\ parseOut = NotParsed
    /\ history = {}
    /\ last_id = 0
    /\ saved = <<>>

----------------------------------------------------------------------------
(* run_voice: the main thread *)

\* an exception leaves the try block: the with statements unwind
\* (audio_lock released, AudioStream.__exit__), then finally: stop_event.set()
MainRaise(cause) ==
    /\ mainPc' = "exited"
    /\ exitCause' = cause
    /\ audio_lock' = IF InSpeak(mainPc) THEN ReleaseOnRaise(audio_lock) ELSE audio_lock
    /\ streamOpen' = FALSE
    /\ stop_event' = TRUE
    /\ turnLog' = IF cause \in Calls THEN Append(turnLog, Called(cause, FALSE)) ELSE turnLog
    /\ UNCHANGED <<timerVars, max_silent_frames, recVars, otherVars, text>>

\* with AudioStream() as stream: stream.start()
MainStart ==
    /\ mainPc = "start"
    /\ \/ /\ mainPc' = "wake"
          /\ streamOpen' = TRUE
          /\ UNCHANGED <<audio_lock, stop_event, exitCause, timerVars,
                         max_silent_frames, recVars, otherVars, turnVars>>
       \/ MainRaise("device")

\* wait_for_wake_word returns; record_until_silence initialises its locals
MainWake ==
    /\ mainPc = "wake"
    /\ mainPc' = "record"
    /\ frames' = <<>>
    /\ silent_frames' = 0
    /\ attempts' = 0
    /\ reads' = 0
    /\ recStop' = "none"
    /\ text' = <<>>
    /\ turnLog' = <<>>
    /\ UNCHANGED <<audio_lock, stop_event, streamOpen, exitCause, timerVars,
                   max_silent_frames, otherVars>>

\* one iteration of the for loop of record_until_silence
RecordStep ==
    /\ mainPc = "record"
    /\ recStop = "none"
    /\ LoopContinues(attempts, max_frames)
    /\ reads' = reads + 1
    /\ \/ \* stream.read timed out: continue
          /\ attempts' = IndexAfterTimeout(attempts)
          /\ UNCHANGED <<frames, silent_frames, recStop>>
       \/ \E is_speech \in BOOLEAN :
            /\ attempts' = attempts + 1
            /\ frames' = Append(frames, is_speech)
            /\ silent_frames' = CountSilence(silent_frames, is_speech)
            /\ recStop' = IF StopOnSilence(silent_frames', Len(frames'), max_silent_frames)
                          THEN "silence" ELSE "none"
    /\ UNCHANGED <<mainPc, audio_lock, stop_event, streamOpen, exitCause,
                   timerVars, max_silent_frames, otherVars, turnVars>>

\* record_until_silence returns; if len(audio_bytes) < 1000: continue
RecordReturn ==
    /\ mainPc = "record"
    /\ recStop = "silence" \/ ~LoopContinues(attempts, max_frames)
    /\ mainPc' = IF TooShort(AudioLen(frames)) THEN "wake" ELSE "transcribe"
    /\ UNCHANGED <<audio_lock, stop_event, streamOpen, exitCause, timerVars,
                   max_silent_frames, recVars, otherVars, turnVars>>

\* text = transcribe(...); if not text.strip(): continue
MainTranscribe ==
    /\ mainPc = "transcribe"
    /\ \/ /\ \E transcription \in SeqsUpTo(Chars, MaxTextLen) :
                /\ text' = transcription
                /\ mainPc' = IF Strip(transcription) = <<>> THEN "wake" ELSE "process"
          /\ turnLog' = Append(turnLog, Called("transcribe", TRUE))
          /\ UNCHANGED <<audio_lock, stop_event, streamOpen, exitCause, timerVars,
                         max_silent_frames, recVars, otherVars>>
       \/ MainRaise("transcribe")

\* result = process_message(client, text, model=MODEL)
MainProcess ==
    /\ mainPc = "process"
    /\ \/ /\ mainPc' = "save"
          /\ turnLog' = Append(turnLog, Called("process_message", TRUE))
          /\ UNCHANGED <<audio_lock, stop_event, streamOpen, exitCause, timerVars,
                         max_silent_frames, recVars, otherVars, text>>
       \/ MainRaise("process_message")

\* variant: the answer is spoken without being saved first
MainSave_Skipped ==
    /\ mainPc = "save"
    /\ mainPc' = "acquire"
    /\ UNCHANGED <<audio_lock, stop_event, streamOpen, exitCause, timerVars,
                   max_silent_frames, recVars, otherVars, turnVars>>

\* save_conversation(...)
MainSave ==
    /\ mainPc = "save"
    /\ \/ /\ mainPc' = "acquire"
          /\ turnLog' = Append(turnLog, Called("save_conversation", TRUE))
          /\ UNCHANGED <<audio_lock, stop_event, streamOpen, exitCause, timerVars,
                         max_silent_frames, recVars, otherVars, text>>
       \/ MainRaise("save_conversation")

\* with audio_lock: (enter)
MainAcquire ==
    /\ mainPc = "acquire"
    /\ CanAcquire(audio_lock)
    /\ audio_lock' = TRUE
    /\ mainPc' = "synth"
    /\ turnLog' = Append(turnLog, Called("acquire", TRUE))
    /\ UNCHANGED <<stop_event, streamOpen, exitCause, timerVars,
                   max_silent_frames, recVars, otherVars, text>>

\* speak: response = client.audio.speech.create(...)
MainSynth ==
    /\ mainPc = "synth"
    /\ \/ /\ mainPc' = "play"
          /\ turnLog' = Append(turnLog, Called("synthesis", TRUE))
          /\ UNCHANGED <<audio_lock, stop_event, streamOpen, exitCause, timerVars,
                         max_silent_frames, recVars, otherVars, text>>
       \/ MainRaise("synthesis")

\* speak: play_audio(response.content); then the with block is left
MainPlay ==
    /\ mainPc = "play"
    /\ \/ /\ mainPc' = "wake"
          /\ audio_lock' = ReleaseOnReturn(audio_lock)
          /\ turnLog' = Append(turnLog, Called("playback", TRUE))
          /\ UNCHANGED <<stop_event, streamOpen, exitCause, timerVars,
                         max_silent_frames, recVars, otherVars, text>>
       \/ MainRaise("playback")

\* KeyboardInterrupt delivered to the main thread inside the try block
MainInterrupt ==
    /\ mainPc \notin {"start", "exited"}
    /\ MainRaise("interrupt")

MainStep ==
    \/ MainStart \/ MainWake \/ RecordStep \/ RecordReturn \/ MainTranscribe
    \/ MainProcess \/ MainSave \/ MainAcquire \/ MainSynth \/ MainPlay

----------------------------------------------------------------------------
(* start_timer_daemon: the daemon thread *)

mainVars == <<mainPc, stop_event, streamOpen, exitCause, max_silent_frames, recVars,
              otherVars, turnVars>>

\* variant: no except clause, the exception ends the daemon thread
OnTickError_Propagate == "stopped"

\* except Exception as e: print(...); the loop goes on to stop_event.wait(1)
OnTickError == "sleep"

\* an exception inside the try of one tick: caught by `except Exception`
TimerRaise ==
    /\ timerPc' = OnTickError
    /\ tickError' = TRUE
    /\ expired' = <<>>
    /\ audio_lock' = IF InSpeak(timerPc) THEN ReleaseOnRaise(audio_lock) ELSE audio_lock
    /\ UNCHANGED mainVars

\* variant: while True
LoopRuns_Ignore(stop) == TRUE

\* the loop condition of the daemon: not stop_event.is_set()
LoopRuns(stop) == ~stop

\* while not stop_event.is_set():
TimerCheck ==
    /\ timerPc = "check"
    /\ timerPc' = IF LoopRuns(stop_event) THEN "poll" ELSE "stopped"
    /\ tickError' = FALSE
    /\ UNCHANGED <<audio_lock, expired, mainVars>>

\* expired = get_expired_timers()
TimerPoll ==
    /\ timerPc = "poll"
    /\ \/ /\ \E rows \in SeqsUpTo(Labels, MaxExpired) : expired' = rows
          /\ timerPc' = "announce"
          /\ UNCHANGED <<audio_lock, tickError, mainVars>>
       \/ TimerRaise

\* for timer in expired: build the message, print it
TimerAnnounce ==
    /\ timerPc = "announce"
    /\ timerPc' = IF expired = <<>> THEN "sleep" ELSE "acquire"
    /\ UNCHANGED <<audio_lock, expired, tickError, mainVars>>

\* with audio_lock: (enter)
TimerAcquire ==
    /\ timerPc = "acquire"
    /\ CanAcquire(audio_lock)
    /\ audio_lock' = TRUE
    /\ timerPc' = "synth"
    /\ UNCHANGED <<expired, tickError, mainVars>>

\* speak: response = client.audio.speech.create(...)
TimerSynth ==
    /\ timerPc = "synth"
    /\ \/ /\ timerPc' = "play"
          /\ UNCHANGED <<audio_lock, expired, tickError, mainVars>>
       \/ TimerRaise

\* speak: play_audio(response.content); then the with block is left
TimerPlay ==
    /\ timerPc = "play"
    /\ \/ /\ timerPc' = "announce"
          /\ expired' = Tail(expired)
          /\ audio_lock' = ReleaseOnReturn(audio_lock)
          /\ UNCHANGED <<tickError, mainVars>>
       \/ TimerRaise

\* stop_event.wait(1)
TimerSleep ==
    /\ timerPc = "sleep"
    /\ timerPc' = "check"
    /\ UNCHANGED <<audio_lock, expired, tickError, mainVars>>

TimerStep ==
    \/ TimerCheck \/ TimerPoll \/ TimerAnnounce \/ TimerAcquire
    \/ TimerSynth \/ TimerPlay \/ TimerSleep

----------------------------------------------------------------------------

(* wake_word.py: WakeWordDetector.detect and wait_for_wake_word *)

\* variant: strict comparison with the threshold
Detect_Strict(prediction, threshold) == \E name \in DOMAIN prediction : prediction[name] > threshold

\* for name, score in prediction.items(): if score >= self.threshold: return True
Detect(prediction, threshold) == \E name \in DOMAIN prediction : prediction[name] >= threshold

\* the samples of a frame of n samples read after pos samples: each sample is
\* named by its position in the stream
FrameSamples(pos, n) == [i \in 1..n |-> pos + i]

\* variant: the buffer is overwritten by the new frame
Concatenate_Overwrite(buffer, audio) == audio

\* np.concatenate([audio_buffer, audio.flatten()])
Concatenate(buffer, audio) == buffer \o audio

\* audio_buffer[:chunk_size]
SliceChunk(buffer, size) == SubSeq(buffer, 1, size)

\* audio_buffer[chunk_size:]
SliceRest(buffer, size) == SubSeq(buffer, size + 1, Len(buffer))

wakeFrozen == <<voiceVars, orchVars, laterVars>>

\* wait_for_wake_word is entered: chunk_size, audio_buffer, frame_count
WakeCall ==
    /\ wPc = "idle"
    /\ wPc' = "read"
    /\ audio_buffer' = <<>>
    /\ frame_count' = 0
    /\ UNCHANGED <<srcPos, scored, resets, wakeEvents, wakeFrozen>>

\* audio = stream.read(timeout=1.0); None: continue; else concatenate
WakeRead ==
    /\ wPc = "read"
    /\ \/ \* timeout
          UNCHANGED <<wakeVars, wakeFrozen>>
       \/ \E n \in 1..MaxFrameLen :
            /\ srcPos + n <= MaxWakeSamples
            /\ audio_buffer' = Concatenate(audio_buffer, FrameSamples(srcPos, n))
            /\ srcPos' = srcPos + n
            /\ wPc' = "slice"
            /\ UNCHANGED <<frame_count, scored, resets, wakeEvents, wakeFrozen>>

\* while len(audio_buffer) >= chunk_size: slice one chunk and score it
WakeSlice ==
    /\ wPc = "slice"
    /\ IF Len(audio_buffer) >= chunk_size
       THEN \E prediction \in [Keywords -> Scores] :
            /\ scored' = Append(scored, [chunk |-> SliceChunk(audio_buffer, chunk_size),
                                         prediction |-> prediction])
            /\ audio_buffer' = SliceRest(audio_buffer, chunk_size)
            /\ frame_count' = frame_count + 1
            /\ wPc' = IF Detect(prediction, DEFAULT_THRESHOLD) THEN "reset" ELSE "slice"
       ELSE /\ wPc' = "read"
            /\ UNCHANGED <<scored, audio_buffer, frame_count>>
    /\ UNCHANGED <<srcPos, resets, wakeEvents, wakeFrozen>>

\* detector.reset()
WakeReset ==
    /\ wPc = "reset"
    /\ resets' = resets + 1
    /\ wPc' = "return"
    /\ UNCHANGED <<audio_buffer, frame_count, srcPos, scored, wakeEvents, wakeFrozen>>

\* return
WakeReturn ==
    /\ wPc = "return"
    /\ wakeEvents' = wakeEvents + 1
    /\ wPc' = "returned"
    /\ UNCHANGED <<audio_buffer, frame_count, srcPos, scored, resets, wakeFrozen>>

WakeNext == WakeCall \/ WakeRead \/ WakeSlice \/ WakeReset \/ WakeReturn

WakeSpec == Init /\ [][WakeNext]_vars

----------------------------------------------------------------------------

(* assistant.py: process_message *)

orchFrozen == <<voiceVars, wakeVars, laterVars>>

\* process_message is entered: messages = [system, user], tracked_tool_calls = []
PmCall ==
    /\ pmPc = "idle"
    /\ \E user_message \in UserMessages :
        messages' = << Message("system", "system prompt", <<>>, 0),
                       Message("user", user_message, <<>>, 0) >>
    /\ tracked_tool_calls' = <<>>
    /\ pmPc' = "submit"
    /\ UNCHANGED <<tool_calls, tcIdx, response, submitted, invoked, result,
                   pmError, orchFrozen>>

\* the calls a response asks for: n calls with fresh correlation ids
CallLists(base) ==
    UNION { { [i \in 1..n |-> [id |-> base + i, name |-> names[i], arguments |-> args[i]]] :
                names \in [1..n -> ToolNames], args \in [1..n -> ArgStrings] } :
            n \in 1..MaxCalls }

\* one pass of `while True` up to the for loop: the request to the service and
\* the handling of its response
PmSubmit ==
    /\ pmPc = "submit"
    /\ IF ~RoundAllowed(Len(submitted))
       THEN /\ pmPc' = "capped"
            /\ UNCHANGED <<messages, tracked_tool_calls, tool_calls, tcIdx, response,
                           submitted, invoked, result, pmError>>
       ELSE /\ submitted' = Append(submitted, messages)
            /\ \/ \* client.chat.completions.create raises
                  /\ pmPc' = "failed"
                  /\ pmError' = "completion"
                  /\ UNCHANGED <<messages, tracked_tool_calls, tool_calls, tcIdx,
                                 response, invoked, result>>
               \/ \* if not message.tool_calls: return ConversationResult(...)
                  \E content \in Contents :
                    /\ response' = [content |-> content, tool_calls |-> <<>>, valid |-> TRUE]
                    /\ result' = [user_input |-> messages[2].content,
                                  final_response |-> FinalResponse(content),
                                  tool_calls |-> tracked_tool_calls,
                                  valid |-> TRUE]
                    /\ pmPc' = "done"
                    /\ UNCHANGED <<messages, tracked_tool_calls, tool_calls, tcIdx,
                                   invoked, pmError>>
               \/ \* messages.append({"role": "assistant", ...})
                  /\ Len(submitted) < MaxRounds
                  /\ \E calls \in CallLists(Len(RequestedCalls(messages))) :
                        /\ response' = [content |-> None, tool_calls |-> calls, valid |-> TRUE]
                        /\ messages' = Append(messages, Message("assistant", None, calls, 0))
                        /\ tool_calls' = calls
                  /\ tcIdx' = 1
                  /\ pmPc' = "execute"
                  /\ UNCHANGED <<tracked_tool_calls, invoked, result, pmError>>
    /\ UNCHANGED orchFrozen

\* one iteration of `for tool_call in tool_calls`
PmExecute ==
    /\ pmPc = "execute"
    /\ LET tool_call == CallAt(tool_calls, tcIdx)
           name == tool_call.name
           parsed == JsonLoads(tool_call.arguments)
       IN IF ~parsed.ok
          THEN \* json.loads raises inside process_message
               /\ pmPc' = "failed"
               /\ pmError' = "json"
               /\ UNCHANGED <<messages, tracked_tool_calls, tcIdx, invoked>>
          ELSE \E outcome \in {"return", "raise"} :
               LET res == ExecuteTool(name, parsed.value, outcome)
               IN /\ invoked' = IF name \in Registry
                                THEN Append(invoked, [id |-> tool_call.id, name |-> name,
                                                      outcome |-> outcome])
                                ELSE invoked
                  /\ IF res.raised
                     THEN /\ pmPc' = "failed"
                          /\ pmError' = "handler"
                          /\ UNCHANGED <<messages, tracked_tool_calls, tcIdx>>
                     ELSE /\ tracked_tool_calls' =
                                Track(tracked_tool_calls, name, parsed.value, res.text)
                          /\ messages' = Append(messages, ToolMessage(tool_call, res.text))
                          /\ tcIdx' = tcIdx + 1
                          /\ pmPc' = IF tcIdx = Len(tool_calls) THEN "submit" ELSE "execute"
                          /\ UNCHANGED pmError
    /\ UNCHANGED <<tool_calls, response, submitted, result, orchFrozen>>

OrchNext == PmCall \/ PmSubmit \/ PmExecute

\* process_message does not depend on the capture configuration
OrchInit == Init /\ max_silent_frames = 0

OrchSpec == OrchInit /\ [][OrchNext]_vars

----------------------------------------------------------------------------

(* audio.py: AudioStream, the queue between the capture callback and run_voice *)

\* queue.Queue() is constructed without maxsize: 0 means no upper limit
maxsize == 0

\* Queue.full(): 0 < maxsize <= qsize(); a put on a full queue blocks
Full(q) == maxsize > 0 /\ Len(q) >= maxsize

\* variant: the newest frame is placed in front of the waiting ones
Put_Front(q, frame) == <<frame>> \o q

\* self.queue.put(indata.copy())
Put(q, frame) == Append(q, frame)

\* phases of run_voice in which stream.read is called
Reading == {"wake", "record"}

\* where run_voice goes after each phase of a turn
PhaseAfter(pc) ==
    CASE pc = "wake" -> {"record"}
      [] pc = "record" -> {"wake", "transcribe"}
      [] pc = "transcribe" -> {"wake", "process"}
      [] pc = "process" -> {"save"}
      [] pc = "save" -> {"acquire"}
      [] pc = "acquire" -> {"synth"}
      [] pc = "synth" -> {"play"}
      [] pc = "play" -> {"wake"}
      [] OTHER -> {}

queueFrozen == <<timerPc, audio_lock, stop_event, exitCause, expired, tickError,
                 max_silent_frames, recVars, turnVars, wakeVars, orchVars, storeVars,
                 parseVars, histVars>>

\* AudioStream.__enter__: start()
StreamStart ==
    /\ mainPc = "start"
    /\ streamOpen' = TRUE
    /\ mainPc' = "wake"
    /\ UNCHANGED <<queueVars, queueFrozen>>

\* the capture device calls _callback with one block of FRAME_SIZE samples
Callback ==
    /\ streamOpen
    /\ produced < MaxCaptured
    /\ ~Full(queue)
    /\ produced' = produced + 1
    /\ queue' = Put(queue, produced')
    /\ UNCHANGED <<mainPc, streamOpen, consumed, queueFrozen>>

\* stream.read(): queue.get(timeout); None when the queue stays empty
StreamRead ==
    /\ mainPc \in Reading
    /\ IF queue = <<>>
       THEN UNCHANGED <<queue, consumed>>
       ELSE /\ consumed' = Append(consumed, [frame |-> Head(queue), by |-> mainPc])
            /\ queue' = Tail(queue)
    /\ UNCHANGED <<mainPc, streamOpen, produced, queueFrozen>>

\* run_voice moves on to its next phase
TurnPhase ==
    /\ \E pc \in PhaseAfter(mainPc) : mainPc' = pc
    /\ UNCHANGED <<streamOpen, queueVars, queueFrozen>>

\* AudioStream.__exit__: stop()
StreamStop ==
    /\ mainPc \notin {"start", "exited"}
    /\ streamOpen' = FALSE
    /\ mainPc' = "exited"
    /\ UNCHANGED <<queueVars, queueFrozen>>

QueueNext == StreamStart \/ Callback \/ StreamRead \/ TurnPhase \/ StreamStop

QueueSpec == OrchInit /\ [][QueueNext]_vars

----------------------------------------------------------------------------

(* tools/timer.py: the timer capabilities run by the main turn *)

storeFrozen == <<voiceVars, wakeVars, orchVars, queueVars, parseVars, histVars>>

\* time passes
Tick ==
    /\ clock < MaxClock
    /\ clock' = clock + 1
    /\ UNCHANGED <<timers, toolVars, expiredVars, leftBy, storeFrozen>>

\* _generate_id(): a value no row of the table carries
FreshIds == Ids \ {r.id : r \in timers}

\* create_timer(time_input, label): fire_at = _parse_time_input(time_input)
CreateCall ==
    /\ toolPc = "idle"
    /\ toolCalls < MaxToolCalls
    /\ toolCalls' = toolCalls + 1
    /\ Cardinality(timers) < MaxTimers
    /\ FreshIds # {}
    /\ \E time_input \in TimeInputs, label \in TimerLabels :
        LET p == ParseTimeInput(time_input, clock)
        IN /\ call' = CallOf("create_timer", time_input, label, <<>>)
           /\ before' = timers
           /\ IF p.raised = "none"
              THEN /\ fire_at' = p.value
                   /\ parsedAt' = clock
                   /\ toolPc' = "create_insert"
                   /\ returned' = NoReturn
              ELSE /\ returned' = IF Catches(p.raised) THEN ErrorStr(p.message)
                                  ELSE Propagated(p.raised)
                   /\ UNCHANGED <<fire_at, parsedAt, toolPc>>
    /\ UNCHANGED <<timers, clock, selected, expiredVars, leftBy, storeFrozen>>

\* timer_id = _generate_id(); now = datetime.now(); INSERT INTO timers; commit
CreateInsert ==
    /\ toolPc = "create_insert"
    /\ \E id \in FreshIds : timers' = timers \cup {Row(id, call.label, fire_at, clock)}
    /\ toolPc' = "create_format"
    /\ UNCHANGED <<clock, call, fire_at, parsedAt, selected, before, returned,
                   toolCalls, expiredVars, leftBy, storeFrozen>>

\* return f"Timer{label_str} set for {remaining} (fires at {time_str})"
CreateReturn ==
    /\ toolPc = "create_format"
    /\ returned' = Text("set for", LabelStr(call.label), FormatRemaining(fire_at, clock),
                        TimeStr(fire_at), <<>>, <<>>)
    /\ toolPc' = "idle"
    /\ fire_at' = 0
    /\ parsedAt' = 0
    /\ UNCHANGED <<timers, clock, call, selected, before, toolCalls, expiredVars, leftBy,
                   storeFrozen>>

\* list_timers(): DELETE FROM timers WHERE fire_at < now; SELECT ... ORDER BY fire_at
ListTimers ==
    /\ toolPc = "idle"
    /\ toolCalls < MaxToolCalls
    /\ toolCalls' = toolCalls + 1
    /\ call' = CallOf("list_timers", <<>>, NoLabel, <<>>)
    /\ before' = timers
    /\ timers' = {r \in timers : ~(r.fire_at < clock)}
    /\ leftBy' = IF timers' # timers THEN leftBy \cup {"list_timers"} ELSE leftBy
    /\ \E s \in OrderedByFireAt(timers') :
        returned' = IF timers' = {}
                    THEN Text("No active timers", NoName, <<>>, NoAt, <<>>, <<>>)
                    ELSE Text("list", NoName, <<>>, NoAt, <<>>,
                              [i \in 1..Cardinality(timers') |-> Line(s[i], clock)])
    /\ UNCHANGED <<clock, toolPc, fire_at, parsedAt, selected, expiredVars, storeFrozen>>

\* cancel_timer(identifier): SELECT ... fetchone()
CancelCall ==
    /\ toolPc = "idle"
    /\ toolCalls < MaxToolCalls
    /\ toolCalls' = toolCalls + 1
    /\ \E identifier \in Identifiers :
        LET matching == {r \in timers : Matches(r, identifier)}
        IN /\ call' = CallOf("cancel_timer", <<>>, NoLabel, identifier)
           /\ before' = timers
           /\ IF matching = {}
              THEN /\ returned' = NotFound(identifier)
                   /\ UNCHANGED <<toolPc, selected>>
              ELSE /\ \E r \in matching : selected' = r
                   /\ toolPc' = "cancel_delete"
                   /\ returned' = NoReturn
    /\ UNCHANGED <<timers, clock, fire_at, parsedAt, expiredVars, leftBy, storeFrozen>>

\* DELETE FROM timers WHERE id = ?; commit; return f"Cancelled timer {label_str}"
CancelDelete ==
    /\ toolPc = "cancel_delete"
    /\ timers' = {r \in timers : r.id # selected.id}
    /\ leftBy' = IF timers' # timers THEN leftBy \cup {"cancel_timer"} ELSE leftBy
    /\ returned' = Text("Cancelled timer", NameOf(selected), <<>>, NoAt, <<>>, <<>>)
    /\ toolPc' = "idle"
    /\ selected' = NoRow
    /\ UNCHANGED <<clock, call, fire_at, parsedAt, before, toolCalls, expiredVars,
                   storeFrozen>>

\* edit_timer(identifier, new_time): parse, then SELECT ... fetchone()
EditCall ==
    /\ toolPc = "idle"
    /\ toolCalls < MaxToolCalls
    /\ toolCalls' = toolCalls + 1
    /\ \E identifier \in Identifiers, new_time \in NewTimes :
        LET p == ParseTimeInput(new_time, clock)
            matching == {r \in timers : Matches(r, identifier)}
        IN /\ call' = CallOf("edit_timer", new_time, NoLabel, identifier)
           /\ before' = timers
           /\ IF p.raised # "none"
              THEN /\ returned' = IF Catches(p.raised) THEN ErrorStr(p.message)
                                  ELSE Propagated(p.raised)
                   /\ UNCHANGED <<toolPc, selected, fire_at, parsedAt>>
              ELSE IF matching = {}
              THEN /\ returned' = NotFound(identifier)
                   /\ UNCHANGED <<toolPc, selected, fire_at, parsedAt>>
              ELSE /\ \E r \in matching : selected' = r
                   /\ fire_at' = p.value
                   /\ parsedAt' = clock
                   /\ toolPc' = "edit_update"
                   /\ returned' = NoReturn
    /\ UNCHANGED <<timers, clock, expiredVars, leftBy, storeFrozen>>

\* UPDATE timers SET fire_at = ? WHERE id = ?; commit
EditUpdate ==
    /\ toolPc = "edit_update"
    /\ timers' = {IF r.id = selected.id THEN [r EXCEPT !.fire_at = fire_at] ELSE r :
                    r \in timers}
    /\ toolPc' = "edit_format"
    /\ UNCHANGED <<clock, call, fire_at, parsedAt, selected, before, returned,
                   toolCalls, expiredVars, leftBy, storeFrozen>>

\* return f"Updated timer {label_str} to {remaining} (fires at {time_str})"
EditReturn ==
    /\ toolPc = "edit_format"
    /\ returned' = Text("Updated timer", NameOf(selected), FormatRemaining(fire_at, clock),
                        TimeStr(fire_at), <<>>, <<>>)
    /\ toolPc' = "idle"
    /\ selected' = NoRow
    /\ fire_at' = 0
    /\ parsedAt' = 0
    /\ UNCHANGED <<timers, clock, call, before, toolCalls, expiredVars, leftBy,
                   storeFrozen>>

ToolNext ==
    \/ CreateCall \/ CreateInsert \/ CreateReturn \/ ListTimers
    \/ CancelCall \/ CancelDelete \/ EditCall \/ EditUpdate \/ EditReturn \/ Tick

ToolSpec == OrchInit /\ [][ToolNext]_vars

(* tools/timer.py: get_expired_timers, called by the daemon *)

\* what makes a row the same record after an edit: its id and its created_at
Identity(r) == [id |-> r.id, created_at |-> r.created_at]

\* the columns of SELECT id, label, fire_at
Columns(r) == [id |-> r.id, label |-> r.label, fire_at |-> r.fire_at]

\* now = datetime.now(); rows = SELECT ... WHERE fire_at <= now; no rows: return []
GetExpiredSelect ==
    /\ gePc = "idle"
    /\ LET due == {r \in timers : r.fire_at <= clock}
       IN IF due = {}
          THEN UNCHANGED expiredVars
          ELSE /\ geRows' = {Columns(r) : r \in due}
               /\ picked' = {Identity(r) : r \in due}
               /\ UNCHANGED handed
               /\ geNow' = clock
               /\ gePc' = "delete"
    /\ UNCHANGED <<timers, clock, toolVars, leftBy, storeFrozen>>

\* DELETE FROM timers WHERE fire_at <= now; commit; return the rows
GetExpiredDelete ==
    /\ gePc = "delete"
    /\ LET removed == {r \in timers : r.fire_at <= geNow}
       IN /\ timers' = timers \ removed
          /\ leftBy' = leftBy
               \cup (IF \E r \in removed : Columns(r) \in geRows
                     THEN {"get_expired_timers"} ELSE {})
               \cup (IF \E r \in removed : Columns(r) \notin geRows
                     THEN {"get_expired_timers, not returned"} ELSE {})
    /\ gePc' = "idle"
    /\ geRows' = {}
    /\ geNow' = 0
    /\ handed' = handed \cup picked
    /\ picked' = {}
    /\ UNCHANGED <<clock, toolVars, storeFrozen>>

StoreNext == ToolNext \/ GetExpiredSelect \/ GetExpiredDelete

StoreSpec == OrchInit /\ [][StoreNext]_vars

(* tools/timer.py: _parse_time_input on clock-time inputs *)

parseFrozen == <<voiceVars, wakeVars, orchVars, queueVars, storeVars, histVars>>

\* _parse_time_input(time_str) for a clock time, at some reading of the clock
ParseClockTime ==
    /\ \E c \in ClockTimes, t \in NowSamples :
        /\ parseIn' = c
        /\ parseNow' = t
        /\ parseOut' = ParseTimeInput(c.str, t)
    /\ UNCHANGED parseFrozen

ParseNext == ParseClockTime

ParseSpec == OrchInit /\ [][ParseNext]_vars

(* history_store.py: save_conversation *)

histFrozen == <<voiceVars, wakeVars, orchVars, queueVars, storeVars, parseVars>>

\* a row of the table history: the AUTOINCREMENT id and the user input
HistoryRow(id, user_input) == [id |-> id, user_input |-> user_input]

\* variant: ORDER BY id ASC
Newest_Ascending(rows, n) ==
    {r \in rows : Cardinality({q \in rows : q.id < r.id}) < n}

\* SELECT id FROM history ORDER BY id DESC LIMIT n
Newest(rows, n) ==
    {r \in rows : Cardinality({q \in rows : q.id > r.id}) < n}

\* DELETE FROM history WHERE id NOT IN (SELECT id ... LIMIT MAX_HISTORY)
Pruned(rows) == {r \in rows : r \in Newest(rows, MAX_HISTORY)}

\* save_conversation(user_input, final_response, tool_calls): INSERT, DELETE, commit
SaveConversation ==
    /\ Len(saved) < MaxSaves
    /\ \E user_input \in UserMessages :
        history' = Pruned(history \cup {HistoryRow(last_id + 1, user_input)})
    /\ last_id' = last_id + 1
    /\ saved' = Append(saved, last_id + 1)
    /\ UNCHANGED histFrozen

HistoryNext == SaveConversation

HistorySpec == OrchInit /\ [][HistoryNext]_vars

----------------------------------------------------------------------------

Next == MainStep \/ MainInterrupt \/ TimerStep

Spec == Init /\ [][Next]_vars

\* normal operation: no shutdown signal is delivered
NormalNext == MainStep \/ TimerStep

\* every speak call terminates (returns or raises); a thread blocked in
\* Lock.acquire is woken when the lock is released, and the releasing thread
\* blocks in stream.read or stop_event.wait before it asks for the lock again
Fairness ==
    /\ WF_vars(MainSynth) /\ WF_vars(MainPlay)
    /\ WF_vars(TimerSynth) /\ WF_vars(TimerPlay)
    /\ SF_vars(MainAcquire) /\ SF_vars(TimerAcquire)

FairSpec == Init /\ [][NormalNext]_vars /\ Fairness

----------------------------------------------------------------------------
(* Properties *)

MainHoldsLock == audio_lock /\ InSpeak(mainPc)
TimerHoldsLock == audio_lock /\ InSpeak(timerPc)

AllSilent(fs) == \A i \in 1..Len(fs) : ~fs[i]

TurnErrors == {"transcribe", "process_message", "save_conversation",
               "synthesis", "playback"}

\* C1: the speak call of the main turn and the speak call of the timer daemon
\* never overlap: at most one of the two activities is inside `with audio_lock`.
C1_MutualExclusion == ~(InSpeak(mainPc) /\ InSpeak(timerPc))

C1_Witness == mainPc = "play" /\ timerPc = "acquire" /\ audio_lock

\* C2: the lock is released on every exit path of a speech request: it is
\* locked exactly while some activity is inside speak, so after a speak that
\* raised it is free and the other activity can take it.
C2_LockFreeOutsideSpeak == audio_lock <=> (InSpeak(mainPc) \/ InSpeak(timerPc))

C2_Witness ==
    /\ mainPc = "exited"
    /\ exitCause \in {"synthesis", "playback"}
    /\ TimerHoldsLock

\* C3: whenever the main turn holds the lock, playback is in progress; the
\* lock is not held while the turn waits on the speech-synthesis service.
C3_LockOnlyDuringPlayback == MainHoldsLock => mainPc = "play"

\* C4: no deadlock on the audio lock: an activity blocked in acquire is
\* blocked by the other one, which is inside speak, does not itself wait for
\* the lock, and has a step it can take.
C4_NoDeadlock ==
    /\ (mainPc = "acquire" /\ audio_lock) =>
            (InSpeak(timerPc) /\ ENABLED (TimerSynth \/ TimerPlay))
    /\ (timerPc = "acquire" /\ audio_lock) =>
            (InSpeak(mainPc) /\ ENABLED (MainSynth \/ MainPlay))

C4_Witness == mainPc = "acquire" /\ timerPc = "play" /\ audio_lock

\* C5: no starvation: under fair scheduling a daemon waiting for the lock
\* eventually acquires it, and a main turn waiting for it eventually acquires it.
C5_NoStarvation ==
    /\ (timerPc = "acquire") ~> (timerPc = "synth")
    /\ (mainPc = "acquire") ~> (mainPc = "synth")

C5_Witness == timerPc = "synth" /\ mainPc = "acquire" /\ Len(expired) = 1

\* C6: a failure of transcription, chat completion, persistence, synthesis or
\* playback does not end the turn loop: the coordinator is back in Idle.
C6_ErrorReturnsToIdle == ~(mainPc = "exited" /\ exitCause \in TurnErrors)

\* C7: the utterance returned by record_until_silence has at most max_frames frames.
C7_AtMostMaxFrames == Len(frames) <= max_frames

C7_Witness == mainPc = "transcribe" /\ Len(frames) = max_frames

\* C8: record_until_silence returns after at most max_frames read attempts,
\* whatever the frames and timeouts: no further read once max_frames were made.
C8_BoundedReads ==
    /\ reads <= max_frames
    /\ (mainPc = "record" /\ reads = max_frames) => ~ENABLED RecordStep

C8_Witness == mainPc = "wake" /\ reads = max_frames /\ frames = <<>>

C10_StopsAtThreshold ==
    /\ (/\ mainPc = "record" /\ Len(frames) >= 1
        /\ silent_frames >= max_silent_frames
        /\ Len(frames) >= max_silent_frames) => recStop = "silence"
    /\ (recStop = "silence" /\ AllSilent(frames) /\ max_silent_frames >= 1)
            => Len(frames) = max_silent_frames

\* the chunk's prediction has a keyword at or above the threshold
AtOrAbove(prediction) == \E name \in Keywords : prediction[name] >= DEFAULT_THRESHOLD

Detections == {k \in 1..Len(scored) : AtOrAbove(scored[k].prediction)}

\* C11: one call of wait_for_wake_word emits at most one wake event: it
\* returns once, only after scoring a chunk at or above the threshold, resets
\* the detector exactly once between that detection and the return, and
\* scores no chunk after the detecting one.
C11_OneWakeEventPerCall ==
    /\ wakeEvents <= 1 /\ resets <= 1
    /\ Detections \subseteq {Len(scored)}
    /\ wPc \in {"idle", "read", "slice"} =>
            (Detections = {} /\ resets = 0 /\ wakeEvents = 0)
    /\ wPc = "reset" => (Detections # {} /\ resets = 0 /\ wakeEvents = 0)
    /\ wPc = "return" => (Detections # {} /\ resets = 1 /\ wakeEvents = 0)
    /\ wPc = "returned" => (Detections # {} /\ resets = 1 /\ wakeEvents = 1)

C11_Witness ==
    /\ wPc = "returned" /\ Len(scored) = 2
    /\ scored[2].prediction["hey_jarvis"] = DEFAULT_THRESHOLD
    /\ scored[2].prediction["alexa"] = 0

\* C12: the k-th chunk scored is exactly samples chunk_size*(k-1)+1 ..
\* chunk_size*k of the frames read in this call, in read order, whatever the
\* frame sizes: nothing skipped, nothing duplicated.
C12_ChunksPartitionSamples ==
    \A k \in 1..Len(scored) :
        scored[k].chunk = [i \in 1..chunk_size |-> chunk_size * (k - 1) + i]

C12_Witness ==
    /\ Len(scored) = 2 /\ audio_buffer # <<>>
    /\ srcPos = MaxWakeSamples

IsKnownCall(c) == c.name \in Registry
IsAssistantMessage(m) == m.role = "assistant"
IdsOfCalls(calls) == [i \in 1..Len(calls) |-> calls[i].id]
IdsOfResults(msgs) == [i \in 1..Len(ToolMessages(msgs)) |-> ToolMessages(msgs)[i].tool_call_id]
NumRounds == Len(SelectSeq(messages, IsAssistantMessage))

\* C13: when the first response carries no capability request, process_message
\* returns its text unchanged, with no recorded invocation, and no handler ran.
C13_FinalAnswerUnchanged ==
    (pmPc = "done" /\ Len(submitted) = 1) =>
        /\ response.content # None => result.final_response = response.content
        /\ result.tool_calls = <<>>
        /\ invoked = <<>>
        /\ ToolMessages(messages) = <<>>

C13_Witness ==
    /\ pmPc = "done" /\ Len(submitted) = 1
    /\ result.final_response = "It is sunny."

\* C14: the calls of a round are run once each in the order received and their
\* results appended in that order; every history sent to the service holds
\* the result of every call requested before, in request order.
C14_RoundInRequestOrder ==
    LET requested == RequestedCalls(messages)
        executed == SubSeq(requested, 1, Len(ToolMessages(messages)))
    IN /\ Len(ToolMessages(messages)) <= Len(requested)
       /\ IdsOfResults(messages) = IdsOfCalls(executed)
       /\ [i \in 1..Len(invoked) |-> invoked[i].id]
            = IdsOfCalls(SelectSeq(executed, IsKnownCall))
       /\ \A k \in 1..Len(submitted) :
            IdsOfResults(submitted[k]) = IdsOfCalls(RequestedCalls(submitted[k]))

C14_Witness ==
    /\ Len(submitted) = 2 /\ Len(tool_calls) = 2 /\ Len(invoked) = 2
    /\ Len(ToolMessages(submitted[2])) = 2

\* C15: an unknown capability name or a raising handler gives an error text,
\* not an exception: the text is the result appended to the history and
\* process_message goes on with the round.
C15_ErrorsBecomeText ==
    /\ pmError # "handler"
    /\ \A i \in 1..Len(tracked_tool_calls) :
            tracked_tool_calls[i].name \notin Registry =>
                tracked_tool_calls[i].result = UnknownToolText(tracked_tool_calls[i].name)
    /\ \A j \in 1..Len(invoked) :
            invoked[j].outcome = "raise" =>
                \E i \in 1..Len(messages) :
                    /\ messages[i].role = "tool"
                    /\ messages[i].tool_call_id = invoked[j].id
                    /\ messages[i].content = ErrorText(invoked[j].name)

C15_Witness ==
    /\ Len(submitted) = 2 /\ Len(tracked_tool_calls) = 2
    /\ tracked_tool_calls[1].name = "bogus"
    /\ IsErrorText(tracked_tool_calls[1].result)
    /\ Len(invoked) = 1 /\ invoked[1].outcome = "raise"

\* C16: the tracked invocations correspond one to one, in order and with the
\* same result text, to the tool messages of the history, and the returned
\* ConversationResult carries the whole list.
C16_EveryInvocationTracked ==
    LET results == ToolMessages(messages)
        requested == RequestedCalls(messages)
    IN /\ Len(tracked_tool_calls) = Len(results)
       /\ \A i \in 1..Len(results) :
            /\ i <= Len(tracked_tool_calls)
            /\ tracked_tool_calls[i].result = results[i].content
            /\ tracked_tool_calls[i].name = requested[results[i].tool_call_id].name
            /\ tracked_tool_calls[i].arguments =
                    JsonLoads(requested[results[i].tool_call_id].arguments).value
       /\ pmPc = "done" => result.tool_calls = tracked_tool_calls

C16_Witness ==
    /\ pmPc = "done" /\ Len(result.tool_calls) = 3
    /\ IsErrorText(result.tool_calls[2].result)
    /\ ~IsErrorText(result.tool_calls[3].result)

\* C17: one chat-completion call per round; process_message returns exactly
\* when a response carries no capability request; the loop itself has no
\* round cap: after every completed round it asks the service again.
C17_OneCallPerRoundNoCap ==
    /\ pmPc # "capped"
    /\ pmPc \in {"submit", "execute"} => Len(submitted) = NumRounds
    /\ pmPc = "done" => (Len(submitted) = NumRounds + 1 /\ response.tool_calls = <<>>)
    /\ (response.valid /\ response.tool_calls = <<>>) => pmPc = "done"
    /\ pmPc = "failed" =>
            Len(submitted) = NumRounds + (IF pmError = "completion" THEN 1 ELSE 0)
    /\ pmPc = "submit" => ENABLED PmSubmit

C17_Witness == pmPc = "submit" /\ Len(submitted) = MaxRounds

\* C18: a captured utterance shorter than 1000 bytes sends the turn straight
\* back to wake-word listening: no transcription, orchestration, persistence
\* or speech is invoked in that turn and the audio lock is not acquired.
C18_ShortUtteranceDiscarded ==
    (mainPc # "record" /\ AudioLen(frames) < MinAudioBytes) =>
        (turnLog = <<>> /\ mainPc \in {"start", "wake", "exited"})

C18_Witness ==
    /\ mainPc = "wake" /\ Len(frames) = 1 /\ reads = max_frames
    /\ turnLog = <<>>

\* C19: an empty or whitespace-only transcription sends the turn back to
\* wake-word listening: the orchestrator is not invoked, nothing is persisted
\* or spoken and the audio lock is not acquired in that turn.
C19_BlankTranscriptionDiscarded ==
    (turnLog # <<>> /\ turnLog[1] = Called("transcribe", TRUE)
        /\ \A i \in 1..Len(text) : text[i] \in Whitespace) =>
            (Len(turnLog) = 1 /\ mainPc \in {"wake", "exited"})

C19_Witness ==
    /\ mainPc = "wake" /\ text = <<" ", " ">>
    /\ turnLog = <<Called("transcribe", TRUE)>>

\* C20: in a turn that reaches Speaking, save_conversation has completed
\* before the audio lock is acquired and before speech output starts.
C20_SavedBeforeSpeaking ==
    /\ \A i \in 1..Len(turnLog) :
            turnLog[i].op \in {"acquire", "synthesis", "playback"} =>
                \E j \in 1..(i - 1) : turnLog[j] = Called("save_conversation", TRUE)
    /\ (mainPc = "acquire" \/ InSpeak(mainPc)) =>
            Called("save_conversation", TRUE) \in {turnLog[j] : j \in 1..Len(turnLog)}

C20_Witness ==
    /\ mainPc = "play"
    /\ turnLog = << Called("transcribe", TRUE), Called("process_message", TRUE),
                    Called("save_conversation", TRUE), Called("acquire", TRUE),
                    Called("synthesis", TRUE) >>

Frames(reads_) == [i \in 1..Len(reads_) |-> reads_[i].frame]

\* C21: the number of frames waiting in the queue stays within a fixed
\* capacity, one smaller than the number of frames the device delivers in the
\* run, also while run_voice is not reading; and a put never finds the queue full.
C21_QueueWithinCapacity ==
    /\ Len(queue) < MaxCaptured
    /\ ~Full(queue)

\* C22: the frames returned by stream.read followed by the frames still waiting
\* are the captured frames 1..produced in capture order: consumption is in
\* enqueue order, no frame is read twice, none is lost or reordered in between.
C22_ConsumedInCaptureOrder ==
    Frames(consumed) \o queue = [i \in 1..produced |-> i]

\* frames were read during wake detection and during capture while the
\* callback kept enqueuing, and a frame enqueued during a turn is still waiting
C22_Witness ==
    /\ \E i, j \in 1..Len(consumed) :
            i < j /\ consumed[i].by = "wake" /\ consumed[j].by = "record"
    /\ Len(consumed) >= 3
    /\ queue # <<>>
    /\ mainPc = "process"

\* C24: in one polling tick every timer returned by get_expired_timers is
\* announced: when the tick ends inside an announcement, because speak raised,
\* no other timer of the tick is still waiting for its announcement.
C24_EachExpiredAnnounced ==
    [][(InSpeak(timerPc) /\ timerPc' = "sleep") => Len(expired) <= 1]_vars

\* C26: once run_voice has exited, for whatever cause, the stop event is set,
\* the capture stream is closed and the lock is not held by the main thread;
\* a daemon that finds the stop event set at its loop condition starts no
\* polling tick, and a stopped daemon stays stopped.
C26_CleanShutdown ==
    /\ [](mainPc = "exited" =>
            /\ stop_event
            /\ ~streamOpen
            /\ (audio_lock => InSpeak(timerPc)))
    /\ [][/\ (timerPc = "check" /\ stop_event) => timerPc' # "poll"
          /\ timerPc = "stopped" => timerPc' = "stopped"]_vars

\* playback raised while the main thread held the lock; the daemon has stopped
C26_Witness ==
    /\ mainPc = "exited"
    /\ exitCause = "playback"
    /\ timerPc = "stopped"
    /\ ~audio_lock

\* C23: the daemon and the main turn share no state besides the lock and the
\* stop event: the daemon never holds rows that a capability of the main turn
\* wrote, and no step of get_expired_timers changes the table the capabilities
\* read and write.
C23_OnlyLockShared ==
    /\ [](geRows = {})
    /\ [][gePc' # gePc => timers' = timers]_vars

\* C25: a row leaves the table only through cancel_timer or through
\* get_expired_timers returning it to the announcer.
C25_LeavesByCancelOrFiring ==
    leftBy \subseteq {"cancel_timer", "get_expired_timers"}

\* the duration inputs explored, with the hours, minutes and seconds they denote
Durations ==
    {[str |-> <<"1", "s">>, h |-> 0, m |-> 0, s |-> 1],
     [str |-> <<" ", "1", "M">>, h |-> 0, m |-> 1, s |-> 0]}
IsDuration(str) == \E d \in Durations : d.str = str
SecondsOf(str) ==
    LET d == CHOOSE d \in Durations : d.str = str
    IN d.h * 3600 + d.m * 60 + d.s

\* the texts that report a remaining time of `total` whole seconds
Reports(total) ==
    IF total = 0 THEN {<<Part(0, "s")>>, <<Part(0, "now")>>} ELSE {FormatSeconds(total)}

\* create_timer, called with a duration, returns
CreateReturns == toolPc = "create_format" /\ toolPc' = "idle" /\ IsDuration(call.time_input)

\* exactly one row is new; it carries the label given and fires at the time of
\* the call plus the duration; the text names the label iff one was given
CreateStoresOne ==
    /\ \E r \in timers' \ before :
        /\ timers' = before \cup {r}
        /\ r.label = call.label
        /\ r.fire_at = parsedAt + SecondsOf(call.time_input) * TicksPerSecond
    /\ returned'.kind = "set for"
    /\ returned'.name.quoted <=> LabelGiven(call.label)
    /\ returned'.name.quoted => <<returned'.name.str>> = call.label

Unparseable == {<<"x">>, <<"2", "5", ":", "0", "0">>}

IsPrefix(p, str) == Len(p) <= Len(str) /\ SubSeq(str, 1, Len(p)) = p

\* a row the identifier names: by its label, by its id or by a prefix of its id
NamedBy(r, identifier) ==
    r.label = <<identifier>> \/ r.id = identifier \/ IsPrefix(identifier, r.id)

\* C29: cancel_timer with an identifier that names a stored timer removes
\* exactly one row the identifier names and reports it cancelled, the other
\* rows staying as they were; with an identifier that names none it reports
\* that no timer was found and leaves the table unchanged.
C29_CancelRemovesOneMatch ==
    (toolPc = "idle" /\ call.op = "cancel_timer") =>
        LET named == {r \in before : NamedBy(r, call.identifier)}
        IN IF named # {}
           THEN /\ returned.kind = "Cancelled timer"
                /\ \E r \in named : timers = before \ {r}
           ELSE /\ returned.kind = "No timer found matching"
                /\ timers = before

\* C30: edit_timer with a parseable time and an identifier that names a stored
\* timer changes the fire-at time of exactly one row the identifier names and
\* nothing else; with an identifier that names none it returns the not-found
\* text and leaves the table unchanged.
C30_EditChangesOnlyFireAt ==
    (toolPc = "idle" /\ call.op = "edit_timer" /\ call.time_input \notin Unparseable) =>
        LET named == {r \in before : NamedBy(r, call.identifier)}
        IN IF named # {}
           THEN /\ returned.kind = "Updated timer"
                /\ \E r \in named : \E t \in {x.fire_at : x \in timers} :
                        timers = (before \ {r}) \cup {[r EXCEPT !.fire_at = t]}
           ELSE /\ returned.kind = "No timer found matching"
                /\ timers = before

\* the capture has left the for loop by exhausting range(max_frames)
EndedByBound == mainPc = "record" /\ recStop = "none" /\ ~LoopContinues(attempts, max_frames)

\* C32: a capture not ended by the silence condition ends exactly when the
\* number of collected frames reaches max_frames: read timeouts do not count
\* towards the bound.
C32_EndsAtMaxFramesCollected ==
    /\ EndedByBound => Len(frames) = max_frames
    /\ (mainPc = "record" /\ recStop = "none" /\ Len(frames) < max_frames)
            => ENABLED RecordStep

\* the number of non-speech frames at the end of the utterance
RECURSIVE TrailingSilence(_)
TrailingSilence(fs) ==
    IF fs = <<>> \/ fs[Len(fs)] THEN 0
    ELSE 1 + TrailingSilence(SubSeq(fs, 1, Len(fs) - 1))

\* C35: after each processed frame the silence counter is the length of the
\* maximal run of non-speech frames at the end of the utterance so far (zero
\* right after a speech frame); every frame read is appended, speech or not;
\* the counter never exceeds the number of collected frames.
C35_CounterIsTrailingSilence ==
    /\ [](/\ silent_frames = TrailingSilence(frames)
          /\ silent_frames <= Len(frames)
          /\ Len(frames) <= reads)
    /\ [][(reads' = reads + 1 /\ attempts' = attempts + 1 /\ frames' = frames)
            \/ reads' # reads + 1
            \/ (\E is_speech \in BOOLEAN : frames' = Append(frames, is_speech))]_vars

C35_Witness ==
    /\ mainPc = "record" /\ Len(frames) = 4 /\ silent_frames = 2
    /\ ~frames[1] /\ frames[2] /\ reads = 4

\* C36: an exception during one polling tick does not end the daemon: the
\* lock is released, the daemon waits for the next tick and polls again; it
\* stops polling only when the stop event is set.
C36_TickErrorKeepsDaemon ==
    /\ [](tickError => /\ timerPc \in {"sleep", "check"}
                       /\ ~TimerHoldsLock
                       /\ (audio_lock => InSpeak(mainPc)))
    /\ [][/\ timerPc' = "stopped" /\ timerPc # "stopped"
                => timerPc = "check" /\ stop_event
          /\ timerPc = "sleep" /\ timerPc' # "sleep" => timerPc' = "check"
          /\ timerPc = "check" /\ ~stop_event /\ timerPc' # "check"
                => timerPc' = "poll"]_vars
    /\ [](timerPc = "sleep" => ENABLED TimerSleep)
    /\ [](timerPc = "check" => ENABLED TimerCheck)

C36_Witness == tickError /\ timerPc = "sleep" /\ ~stop_event /\ mainPc = "acquire"

\* the messages after [system, user] are rounds: an assistant message with its
\* calls, then one tool message per call, with that call's id, in request order
RoundsWellFormed(msgs) ==
    /\ Len(msgs) >= 3 => IsAssistantMessage(msgs[3])
    /\ \A k \in 3..Len(msgs) :
        /\ msgs[k].role \in {"assistant", "tool"}
        /\ IsAssistantMessage(msgs[k]) =>
            LET calls == msgs[k].tool_calls
            IN /\ Len(calls) >= 1
               /\ \A j \in 1..Len(calls) :
                    k + j <= Len(msgs) =>
                        /\ IsToolMessage(msgs[k + j])
                        /\ msgs[k + j].tool_call_id = calls[j].id
               /\ k + Len(calls) + 1 <= Len(msgs)
                    => IsAssistantMessage(msgs[k + Len(calls) + 1])

\* C33: the message history of a turn is append-only: it starts as
\* [system, user]; a round with capability requests appends one assistant
\* message with all requested calls, then one tool message per call with that
\* call's correlation id, in request order; earlier messages are never
\* modified or removed; every submission sends the full history so far.
C33_HistoryAppendOnly ==
    /\ [](pmPc # "idle" =>
            /\ Len(messages) >= 2
            /\ messages[1].role = "system" /\ messages[2].role = "user"
            /\ RoundsWellFormed(messages)
            /\ Len(ToolMessages(messages)) + NumRounds + 2 = Len(messages)
            /\ \A k \in 1..Len(submitted) : IsPrefix(submitted[k], messages))
    /\ [][/\ pmPc = "idle" => Len(messages') = 2
          /\ pmPc # "idle" => /\ IsPrefix(messages, messages')
                              /\ Len(messages') <= Len(messages) + 1
          /\ submitted' # submitted => submitted' = Append(submitted, messages)]_vars

C33_Witness ==
    /\ pmPc = "done" /\ Len(submitted) = 3 /\ Len(messages) = 7
    /\ Len(messages[3].tool_calls) = 2 /\ Len(messages[6].tool_calls) = 1
    /\ submitted[3] = messages

\* C34: a capability request whose argument string is not valid JSON is
\* handled like any other capability error: it yields an error text that is
\* appended to the history and recorded, and process_message does not raise.
C34_BadJsonIsErrorText ==
    /\ pmError # "json"
    /\ \A k \in 1..Len(RequestedCalls(messages)) :
        LET c == RequestedCalls(messages)[k]
        IN (~JsonLoads(c.arguments).ok /\ k <= Len(ToolMessages(messages))) =>
              /\ IsErrorText(ToolMessages(messages)[k].content)
              /\ k <= Len(tracked_tool_calls)
              /\ tracked_tool_calls[k].result = ToolMessages(messages)[k].content

\* a step in which a call of get_expired_timers returns
PollReturns == gePc = "delete" /\ gePc' = "idle"

\* C37: get_expired_timers returns every record it deletes, whatever
\* create_timer or edit_timer do between its select and its delete: no row is
\* removed by a poll without being in the returned list, and no row whose
\* fire-at time is still in the future is removed.
C37_ReturnsWhatItDeletes ==
    [][PollReturns =>
         \A r \in timers \ timers' :
            /\ Identity(r) \in picked
            /\ r.fire_at <= clock]_vars

\* C38: no timer is announced more than once: a record returned by one call
\* of get_expired_timers is absent from the store when the call returns and
\* is never returned by a later call.
C38_ReturnedOnceAndGone ==
    [][PollReturns =>
         /\ picked \cap {Identity(r) : r \in timers'} = {}
         /\ picked \cap handed = {}]_vars

\* the day and the time of day of a reading of the clock, in ticks
DayOf(t) == t \div OneDay
TimeOfDay(t) == t % OneDay

\* C39: for a clock-time input the fire-at time is strictly later than now
\* and at most 24 hours later, has the requested hour and minute and zero
\* seconds, and is tomorrow exactly when that time of day has passed today
\* or is now; 12am is hour 0 and 12pm is hour 12.
C39_NextOccurrenceOfClockTime ==
    parseOut # NotParsed =>
        LET wanted == Timedelta(parseIn.hour, parseIn.minute, 0)
        IN /\ parseOut.raised = "none"
           /\ parseOut.value > parseNow
           /\ parseOut.value <= parseNow + OneDay
           /\ TimeOfDay(parseOut.value) = wanted
           /\ DayOf(parseOut.value) =
                IF wanted <= TimeOfDay(parseNow) THEN DayOf(parseNow) + 1
                ELSE DayOf(parseNow)

C39_Witness ==
    /\ parseIn = ClockTime(<<"1", "2", ":", "3", "0", "p", "m">>, 12, 30)
    /\ TimeOfDay(parseNow) = Timedelta(12, 30, 0)
    /\ parseOut.value = parseNow + OneDay

\* the last n elements of a sequence, as a set
LastOf(seq, n) == {seq[i] : i \in {j \in 1..Len(seq) : j > Len(seq) - n}}

\* C31: after any sequence of save_conversation calls the store holds at
\* most MAX_HISTORY records and they are exactly the most recently saved
\* ones; the record just saved is retained, and an older record is removed
\* only when more than MAX_HISTORY exist.
C31_KeepsNewestTwenty ==
    /\ [](/\ Cardinality(history) <= MAX_HISTORY
          /\ {r.id : r \in history} = LastOf(saved, MAX_HISTORY))
    /\ [][saved' # saved =>
            /\ \E r \in history' : r.id = saved'[Len(saved')] /\ r \notin history
            /\ history \subseteq history' \/ Cardinality(history) + 1 > MAX_HISTORY]_vars

C31_Witness ==
    /\ Len(saved) = MAX_HISTORY + 2
    /\ Cardinality(history) = MAX_HISTORY
    /\ \A r \in history : r.id > 2

====
